---- MODULE Spec2Model ----
(***************************************************************************)
(* ndm: send and read Nostr encrypted direct messages (src/main.go).       *)
(*                                                                         *)
(* The model follows sendMessage and readMessages statement by statement.  *)
(* The relays, the crypto library and the deadline are the environment:    *)
(*   - a relay's behaviour (does its connect / publish / query answer,     *)
(*     fail, or hang; which events its stream delivers) is chosen when     *)
(*     the loop reaches the relay and recorded in net;                     *)
(*   - the shared context deadline is the flag expired: an operation on a  *)
(*     relay that hangs returns only when the deadline elapses, and every  *)
(*     operation started with an elapsed deadline fails at once;           *)
(*   - keys, ciphertexts and events are abstract values, with the          *)
(*     library's operations (Sign, GenerateConversationKey, Encrypt,       *)
(*     Decrypt, nip19.Decode) as operators that fail where the library     *)
(*     fails.                                                              *)
(***************************************************************************)
EXTENDS Integers, Sequences, FiniteSets, TLC

\* ------------------------------------------------------------------ bounds
MaxRelays == 3      \* longest configured relay list
MaxStream == 2      \* most events one relay's result stream delivers
MaxCount  == 2      \* largest -n/--count value
MaxArgs   == 6      \* most words after the command word in an argument list
MaxTime   == 2      \* latest clock reading (seconds) at which a send is prepared

\* ------------------------------------------------------- program constants
DefaultCount == 10                  \* options.count when -n is not given
KindEncryptedDirectMessage == 4     \* nostr.KindEncryptedDirectMessage
PreviewLen == 50                    \* characters of raw ciphertext shown

\* --------------------------------------------------------- 32-byte values
\* A 64-character hex string denotes one 32-byte value.  Some values are
\* valid secp256k1 secrets (Sign accepts them), some are valid x-only public
\* keys, some (such as a typical public key) are both, some are neither.
Values == {"skA", "skB", "pkA", "pkB", "pkX", "ffff"}

ValidSecret(v) == v \in {"skA", "skB", "pkB"}

ValidPub(v) == v \in {"pkA", "pkB", "pkX"}

\* the signer identity evt.Sign attaches for a valid secret
PubOf(v) ==
  CASE v = "skA" -> "pkA"
    [] v = "skB" -> "pkB"
    [] v = "pkB" -> "pkX"
    [] OTHER     -> "none"

NoErr == "nil"

\* ------------------------------------------------------------ key strings
\* A user-supplied key string.  form is its textual shape: 64 hex
\* characters, a string that starts with "nsec" or with "npub", or any other
\* shape.  For the bech32 shapes, tag is the prefix nip19.Decode returns (""
\* when the string does not decode, another tag such as "nsecx" when its
\* human-readable part is longer than the four letters) and ok tells whether
\* the decoded value is a 32-byte key (val).
KeyStrings ==
  [form : {"hex"}, tag : {""}, val : {"skA", "pkA", "pkB", "ffff"}, ok : {TRUE}]
    \cup [form : {"nsec"}, tag : {"nsec"}, val : {"skA", "ffff"}, ok : {TRUE}]
    \cup [form : {"npub"}, tag : {"npub"}, val : {"pkB", "ffff"}, ok : {TRUE}]
    \cup [form : {"nsec"}, tag : {"", "nsec", "nsecx"}, val : {""}, ok : {FALSE}]
    \cup [form : {"npub"}, tag : {"", "npubx"}, val : {""}, ok : {FALSE}]
    \cup [form : {"other"}, tag : {""}, val : {""}, ok : {FALSE}]

\* len(input) == 64 && isHex(input)
isHex64(input) == input.form = "hex"

\* nip19.Decode: the prefix it returns
DecodePrefix(input) == input.tag

derivePublicKeyFromPrivate(privkeyHex) ==
  IF ValidSecret(privkeyHex)
    THEN [err |-> NoErr, val |-> PubOf(privkeyHex)]
    ELSE [err |-> "sign", val |-> ""]

\* (variant: a hex input is always taken as a literal public key)
resolveKey_NoDerive(input) ==
  IF isHex64(input)
    THEN [err |-> NoErr, val |-> input.val]
  ELSE IF input.form = "nsec" /\ DecodePrefix(input) = "nsec" /\ input.ok
    THEN derivePublicKeyFromPrivate(input.val)
  ELSE IF input.form = "npub" /\ DecodePrefix(input) = "npub" /\ input.ok
    THEN [err |-> NoErr, val |-> input.val]
  ELSE [err |-> "could not resolve key", val |-> "", arg |-> input]

resolveKey(input) ==
  IF isHex64(input)
    THEN IF derivePublicKeyFromPrivate(input.val).err = NoErr
           THEN derivePublicKeyFromPrivate(input.val)
           ELSE [err |-> NoErr, val |-> input.val]
  ELSE IF input.form = "nsec" /\ DecodePrefix(input) = "nsec" /\ input.ok
    THEN derivePublicKeyFromPrivate(input.val)
  ELSE IF input.form = "npub" /\ DecodePrefix(input) = "npub" /\ input.ok
    THEN [err |-> NoErr, val |-> input.val]
  ELSE [err |-> "could not resolve key", val |-> "", arg |-> input]

\* (variant: any decodable bech32 key is taken as the private key)
resolvePrivateKey_AnyBech32(input) ==
  IF isHex64(input)
    THEN [err |-> NoErr, val |-> input.val]
  ELSE IF input.form \in {"nsec", "npub"} /\ DecodePrefix(input) = input.form
    THEN IF ~input.ok
           THEN [err |-> "invalid secret value", val |-> ""]
           ELSE [err |-> NoErr, val |-> input.val]
  ELSE [err |-> "invalid private key format", val |-> ""]

resolvePrivateKey(input) ==
  IF isHex64(input)
    THEN [err |-> NoErr, val |-> input.val]
  ELSE IF input.form = "nsec" /\ DecodePrefix(input) = "nsec"
    THEN IF ~input.ok
           THEN [err |-> "invalid secret value", val |-> ""]
           ELSE [err |-> NoErr, val |-> input.val]
  ELSE [err |-> "invalid private key format", val |-> ""]

\* ----------------------------------------------------------------- crypto
\* nip44.GenerateConversationKey(pub, priv): the shared secret of the two
\* identities, the same whichever side derives it.
GenerateConversationKey(pub, priv) ==
  IF ValidPub(pub) /\ ValidSecret(priv)
    THEN [err |-> NoErr, key |-> {pub, PubOf(priv)}]
    ELSE [err |-> "conversation key", key |-> {}]

\* messages given with -m: a short one, and one longer than nip44 encrypts
Plaintexts == {"hello", "toolong"}

\* nip44.Encrypt(plaintext, key): the error it returns
EncryptErr(plaintext) == IF plaintext = "toolong" THEN "plaintext too long" ELSE NoErr

\* nip44.Encrypt(plaintext, key)
\* (a version-2 payload of a short plaintext is 132 base64 characters)
Encrypt(plaintext, key) == [form |-> "nip44", ck |-> key, pt |-> plaintext, len |-> 132]

EmptyContent == [form |-> "empty", ck |-> {}, pt |-> "", len |-> 0]

\* a content that is no nip44 payload, shorter than the preview
ShortGarbage == [form |-> "garbage", ck |-> {}, pt |-> "", len |-> 10]

\* nip44.Decrypt(content, key): fails on malformed payloads and on a key
\* that does not authenticate the payload
Decrypt(content, key) ==
  IF content.form = "nip44" /\ content.ck = key
    THEN [err |-> NoErr, val |-> content.pt]
    ELSE [err |-> "decrypt", val |-> ""]

\* (variant: no content is turned away before the key is derived)
ContentRejected_Never(content) == FALSE

\* content == ""
ContentRejected(content) == content = EmptyContent

decryptMessage(privkey, pubkey, content) ==
  IF ContentRejected(content)
    THEN [err |-> "empty content", val |-> ""]
  ELSE IF GenerateConversationKey(pubkey, privkey).err # NoErr
    THEN [err |-> "generate key", val |-> ""]
  ELSE Decrypt(content, GenerateConversationKey(pubkey, privkey).key)

\* ----------------------------------------------------------------- events
\* evt.Sign(privkey): fills in the signer's public key, the identifier (the
\* hash of the signed fields) and the signature.
Sign(evt, privkey) ==
  IF ValidSecret(privkey)
    THEN [err |-> NoErr,
          evt |-> [evt EXCEPT !.PubKey = PubOf(privkey),
                              !.ID = <<"id", PubOf(privkey), evt.CreatedAt, evt.Kind,
                                       evt.Tags, evt.Content>>,
                              !.Sig = <<"sig", privkey, evt.CreatedAt, evt.Kind,
                                        evt.Tags, evt.Content>>]]
    ELSE [err |-> "sign", evt |-> evt]

NoEvent ==
  [Kind |-> 0, CreatedAt |-> 0, Tags |-> <<>>, Content |-> EmptyContent,
   PubKey |-> "", ID |-> <<>>, Sig |-> <<>>]

\* nip19.EncodePublicKey
EncodePublicKey(pubkey) == <<"npub", pubkey>>

\* ------------------------------------------------------------------ state
VARIABLES
  opts,             \* the parsed options (parseArgs' result)
  relays,           \* the relay list of this run, in configured order
  net,              \* environment: each relay's behaviour, fixed when contacted
  expired,          \* environment: the context deadline has elapsed
  pc,               \* position in sendMessage / readMessages
  privkey,          \* resolved private key
  recipientPubkey,  \* send: resolved recipient; read: own public key (pubkey)
  event,            \* send: the signed event
  idx,              \* index of the relay the range loop is at
  open,             \* relays whose connection is open (connected, not closed)
  connects,         \* per relay: number of RelayConnect calls made to it
  err,              \* the err variable of the loop body
  published,        \* send: number of relays that accepted the event
  relayState,       \* per relay: how far its attempt got
  relayErr,         \* per relay: why its attempt failed
  events,           \* read: accumulated events
  pos,              \* read: events taken from the current relay's channel
  msgs,             \* read: the JSON entries built so far
  ri,               \* read: index of the event being rendered
  stdout,           \* what the run printed to standard output
  ret,              \* the error the run returned ("running" until it returns)
  sent,             \* send, per relay: the event handed to its Publish call
  dec,              \* decryptMessage: its arguments, position, the key it
                    \* derived, the library calls it made and what it returned
  argv,             \* parseArgs: the argument list it was called with
  args,             \* parseArgs: its args variable (the command word sliced off)
  argi,             \* parseArgs: the loop index i (1-based)
  ppc,              \* parseArgs: position in the function
  popts,            \* parseArgs: the options being filled in
  parsed            \* parseArgs: what it returned, (opts, err)

runvars ==
  <<opts, relays, net, expired, pc, privkey, recipientPubkey, event, idx, open,
    connects, err, published, relayState, relayErr, events, pos, msgs, ri, stdout, ret,
    sent>>

argvars == <<argv, args, argi, ppc, popts, parsed>>

vars == <<runvars, argvars, dec>>

\* ----------------------------------------------------------------- inputs
\* the clock readings time.Now().Unix() can give
Times == 1..MaxTime

Hex(v)  == [form |-> "hex", tag |-> "", val |-> v, ok |-> TRUE]
Nsec(v) == [form |-> "nsec", tag |-> "nsec", val |-> v, ok |-> TRUE]
Npub(v) == [form |-> "npub", tag |-> "npub", val |-> v, ok |-> TRUE]
Junk    == [form |-> "other", tag |-> "", val |-> "", ok |-> FALSE]
NoKey   == [form |-> "", tag |-> "", val |-> "", ok |-> FALSE]

\* keys given with -k and -r in the runs explored
KeyInputs == KeyStrings

Counts == (0 - 1) .. MaxCount

\* what parseArgs returns without error: send needs key, recipient and
\* message; read needs the key only
Options ==
  [read : {FALSE}, key : KeyInputs, recipient : KeyInputs, message : Plaintexts,
   count : {DefaultCount}, jsonOutput : BOOLEAN]
    \cup
  [read : {TRUE}, key : KeyInputs, recipient : {NoKey}, message : {""},
   count : Counts, jsonOutput : BOOLEAN]

\* events relays hold for the reader skA (public key pkA): one that decrypts,
\* one whose content is no valid payload, one with empty content
StoredEvents ==
  { [Kind |-> KindEncryptedDirectMessage, CreatedAt |-> 1, Tags |-> <<"p", "pkA">>,
     Content |-> Encrypt("hello", {"pkA", "pkB"}),
     PubKey |-> "pkB", ID |-> <<"e1">>, Sig |-> <<"s1">>],
    [Kind |-> KindEncryptedDirectMessage, CreatedAt |-> 1, Tags |-> <<"p", "pkA">>,
     Content |-> ShortGarbage,
     PubKey |-> "pkB", ID |-> <<"e2">>, Sig |-> <<"s2">>],
    [Kind |-> KindEncryptedDirectMessage, CreatedAt |-> 1, Tags |-> <<"p", "pkA">>,
     Content |-> EmptyContent,
     PubKey |-> "pkX", ID |-> <<"e3">>, Sig |-> <<"s3">>] }

\* a relay answers a query with each stored event at most once
Streams ==
  { sq \in UNION { [1..n -> StoredEvents] : n \in 0..MaxStream } :
      \A i, j \in DOMAIN sq : i # j => sq[i] # sq[j] }

Unknown ==
  [conn |-> "unknown", pub |-> "unknown", qry |-> "unknown", stream |-> <<>>, eose |-> TRUE]

\* a relay as send meets it: its connect answers, fails or hangs, and so
\* does its publish
SendBehaviours ==
  [conn : {"fail", "hang"}, pub : {"unknown"}, qry : {"unknown"}, stream : {<<>>}, eose : {TRUE}]
    \cup
  [conn : {"ok"}, pub : {"ok", "fail", "hang"}, qry : {"unknown"}, stream : {<<>>}, eose : {TRUE}]

\* a relay as read meets it: connect as above; the query is accepted or
\* fails; an accepted query's channel delivers stream and is then closed by
\* the relay's end-of-stored-events (eose) or, failing that, by the deadline.
\* What the connect does is fixed when the loop reaches the relay, what the
\* query does when the query is sent.
ReadConnBehaviours ==
  [conn : {"ok", "fail", "hang"}, pub : {"unknown"}, qry : {"unknown"}, stream : {<<>>}, eose : {TRUE}]

ReadQueryBehaviours ==
  [conn : {"ok"}, pub : {"unknown"}, qry : {"fail"}, stream : {<<>>}, eose : {TRUE}]
    \cup
  [conn : {"ok"}, pub : {"unknown"}, qry : {"ok"}, stream : Streams, eose : BOOLEAN]

\* the options record parseArgs starts from
InitialOptions ==
  [read |-> FALSE, key |-> "", recipient |-> "", message |-> "", count |-> DefaultCount]

\* no call of decryptMessage is followed on its own
DecIdle ==
  [privkey |-> "", pubkey |-> "", content |-> EmptyContent, pc |-> "idle",
   key |-> {}, calls |-> <<>>, ret |-> [err |-> "running", val |-> ""]]

\* argument parsing is over when a command runs: its variables rest
ArgsIdle ==
  /\ argv = <<>>
  /\ args = <<>>
  /\ argi = 0
  /\ ppc = "idle"
  /\ popts = InitialOptions
  /\ parsed = [opts |-> <<>>, err |-> "none"]

Init ==
  /\ opts \in Options
  /\ relays \in { [i \in 1..n |-> i] : n \in 1..MaxRelays }
  /\ net = [i \in DOMAIN relays |-> Unknown]
  /\ expired = FALSE
  /\ pc = "start"
  /\ privkey = ""
  /\ recipientPubkey = ""
  /\ event = NoEvent
  /\ idx = 0
  /\ open = {}
  /\ connects = [i \in DOMAIN relays |-> 0]
  /\ err = NoErr
  /\ published = 0
  /\ relayState = [i \in DOMAIN relays |-> "Idle"]
  /\ relayErr = [i \in DOMAIN relays |-> NoErr]
  /\ events = <<>>
  /\ pos = 0
  /\ msgs = <<>>
  /\ ri = 0
  /\ stdout = <<>>
  /\ ret = "running"
  /\ sent = [i \in DOMAIN relays |-> NoEvent]
  /\ ArgsIdle
  /\ dec = DecIdle

\* ------------------------------------------------------- relay operations
\* nostr.RelayConnect(ctx, relay): fails at once on an elapsed deadline;
\* a relay that hangs makes it return when the deadline elapses
ConnectResult(b, exp) ==
  IF exp THEN "context deadline exceeded"
  ELSE IF b.conn = "ok" THEN NoErr
  ELSE IF b.conn = "hang" THEN "context deadline exceeded"
  ELSE "connect error"

\* rc.Publish(ctx, event)
PublishResult(b, exp) ==
  IF exp THEN "context deadline exceeded"
  ELSE IF b.pub = "ok" THEN NoErr
  ELSE IF b.pub = "hang" THEN "context deadline exceeded"
  ELSE "publish error"

\* rc.QueryEvents(ctx, filter)
QueryResult(b, exp) ==
  IF exp THEN "context deadline exceeded"
  ELSE IF b.qry = "ok" THEN NoErr
  ELSE "query error"

\* -------------------------------------------------------------------- send
\* sendMessage up to the signed event (resolution, encryption, signing)
\* (now is what time.Now().Unix() returns where the event is built)
SendPrepared(o, now) ==
  LET pk == resolvePrivateKey(o.key)
      rp == resolveKey(o.recipient)
      ck == GenerateConversationKey(rp.val, pk.val)
      ev == Sign([NoEvent EXCEPT !.Kind = KindEncryptedDirectMessage,
                                 !.CreatedAt = now,
                                 !.Tags = <<"p", rp.val>>,
                                 !.Content = Encrypt(o.message, ck.key)], pk.val)
  IN  IF pk.err # NoErr THEN [err |-> "invalid private key", privkey |-> "", pubkey |-> "", event |-> NoEvent]
      ELSE IF rp.err # NoErr THEN [err |-> "invalid recipient", privkey |-> "", pubkey |-> "", event |-> NoEvent]
      ELSE IF ck.err # NoErr THEN [err |-> "failed to generate conversation key", privkey |-> "", pubkey |-> "", event |-> NoEvent]
      ELSE IF EncryptErr(o.message) # NoErr THEN [err |-> "failed to encrypt", privkey |-> "", pubkey |-> "", event |-> NoEvent]
      ELSE IF ev.err # NoErr THEN [err |-> "failed to sign event", privkey |-> "", pubkey |-> "", event |-> NoEvent]
      ELSE [err |-> NoErr, privkey |-> pk.val, pubkey |-> rp.val, event |-> ev.evt]

SendPrepare ==
  /\ pc = "start"
  /\ ~opts.read
  /\ \E now \in Times :
     LET p == SendPrepared(opts, now)
     IN  IF p.err # NoErr
           THEN /\ ret' = p.err
                /\ pc' = "done"
                /\ UNCHANGED <<privkey, recipientPubkey, event, idx>>
           ELSE /\ privkey' = p.privkey
                /\ recipientPubkey' = p.pubkey
                /\ event' = p.event
                /\ idx' = 1
                /\ pc' = "send_loop"
                /\ ret' = ret
  /\ UNCHANGED <<connects, opts, relays, net, expired, open, err, published, relayState,
                 relayErr, events, pos, msgs, ri, stdout>>
  /\ UNCHANGED <<sent, argvars, dec>>

\* for _, relay := range relays: the next relay, or the end of the loop
SendLoop ==
  /\ pc = "send_loop"
  /\ IF idx <= Len(relays)
       THEN /\ \E b \in SendBehaviours : net' = [net EXCEPT ![idx] = b]
            /\ relayState' = [relayState EXCEPT ![idx] = "Connecting"]
            /\ pc' = "send_connect"
       ELSE /\ pc' = "send_finish"
            /\ UNCHANGED <<net, relayState>>
  /\ UNCHANGED <<connects, opts, relays, expired, privkey, recipientPubkey, event, idx, open,
                 err, published, relayErr, events, pos, msgs, ri, stdout, ret>>
  /\ UNCHANGED <<sent, argvars, dec>>

\* the range loop moves to the next relay: after a failed connect (continue)
\* and at the end of the loop body after a publish that returned e
\* (variant: a relay whose connect failed is tried again)
NextAfterConnectError_Retry(i) == i

NextAfterConnectError(i) == i + 1

\* (variant: the loop stops at the first relay that accepted the event)
NextAfterPublish_StopAtSuccess(i, e) == IF e = NoErr THEN MaxRelays + 2 ELSE i + 1

NextAfterPublish(i, e) == i + 1

\* rc, err := nostr.RelayConnect(ctx, relay); if err != nil { continue }
SendConnect ==
  /\ pc = "send_connect"
  /\ LET e == ConnectResult(net[idx], expired)
     IN  /\ err' = e
         /\ connects' = [connects EXCEPT ![idx] = @ + 1]
         /\ expired' = (expired \/ e = "context deadline exceeded")
         /\ IF e = NoErr
              THEN /\ open' = open \cup {idx}
                   /\ relayState' = [relayState EXCEPT ![idx] = "Publishing"]
                   /\ pc' = "send_publish"
                   /\ UNCHANGED <<idx, relayErr>>
              ELSE /\ relayState' = [relayState EXCEPT ![idx] = "Failed"]
                   /\ relayErr' = [relayErr EXCEPT ![idx] = e]
                   /\ idx' = NextAfterConnectError(idx)
                   /\ pc' = "send_loop"
                   /\ open' = open
  /\ UNCHANGED <<opts, relays, net, privkey, recipientPubkey, event, published,
                 events, pos, msgs, ri, stdout, ret>>
  /\ UNCHANGED <<sent, argvars, dec>>

\* (variant: each relay gets the event with its own creation time)
PublishedEvent_Restamped(ev, i) == [ev EXCEPT !.CreatedAt = @ + i]

\* the event rc.Publish is called with for relay i: the event variable
PublishedEvent(ev, i) == ev

\* err = rc.Publish(ctx, event)
SendPublish ==
  /\ pc = "send_publish"
  /\ LET e == PublishResult(net[idx], expired)
     IN  /\ err' = e
         /\ expired' = (expired \/ e = "context deadline exceeded")
         /\ relayState' = [relayState EXCEPT ![idx] = IF e = NoErr THEN "Succeeded" ELSE "Failed"]
         /\ relayErr' = [relayErr EXCEPT ![idx] = e]
  /\ sent' = [sent EXCEPT ![idx] = PublishedEvent(event, idx)]
  /\ pc' = "send_close"
  /\ UNCHANGED <<connects, opts, relays, net, privkey, recipientPubkey, event, idx, open,
                 published, events, pos, msgs, ri, stdout, ret>>
  /\ UNCHANGED <<argvars, dec>>

\* (variant: every publish that returned is counted, failed or not)
PublishedAfter_CountAll(n, e) == n + 1

\* the count the loop body adds to published after a publish that returned e
PublishedAfter(n, e) == IF e = NoErr THEN n + 1 ELSE n

\* rc.Close(); if err == nil { published++ }
SendClose ==
  /\ pc = "send_close"
  /\ open' = open \ {idx}
  /\ published' = PublishedAfter(published, err)
  /\ idx' = NextAfterPublish(idx, err)
  /\ pc' = "send_loop"
  /\ UNCHANGED <<connects, opts, relays, net, expired, privkey, recipientPubkey, event, err,
                 relayState, relayErr, events, pos, msgs, ri, stdout, ret>>
  /\ UNCHANGED <<sent, argvars, dec>>

PublishFailed == "failed to publish to any relay"

\* one printed entry
Line(kind, id, from, content, n) ==
  [kind |-> kind, id |-> id, from |-> from, content |-> content, n |-> n,
   raw |-> [of |-> EmptyContent, shown |-> 0]]

\* what a send that published to n relays returns and prints
SendResult(o, ev, rp, n) ==
  IF n = 0
    THEN [ret |-> PublishFailed, stdout |-> <<>>]
    ELSE [ret |-> NoErr,
          stdout |-> << Line(IF o.jsonOutput THEN "sent_json" ELSE "sent_text",
                             ev.ID, EncodePublicKey(rp), "", n) >>]

\* if published == 0 { return error }; print the result; return nil
SendFinish ==
  /\ pc = "send_finish"
  /\ ret' = SendResult(opts, event, recipientPubkey, published).ret
  /\ stdout' = SendResult(opts, event, recipientPubkey, published).stdout
  /\ pc' = "done"
  /\ UNCHANGED <<connects, opts, relays, net, expired, privkey, recipientPubkey, event, idx,
                 open, err, published, relayState, relayErr, events, pos, msgs, ri>>
  /\ UNCHANGED <<sent, argvars, dec>>

\* -------------------------------------------------------------------- read
\* (variant: the error of the public-key derivation is dropped)
ReadPrepared_IgnoreDeriveError(o) ==
  LET pk == resolvePrivateKey(o.key)
      pb == derivePublicKeyFromPrivate(pk.val)
  IN  IF pk.err # NoErr THEN [err |-> "invalid private key", privkey |-> "", pubkey |-> ""]
      ELSE [err |-> NoErr, privkey |-> pk.val, pubkey |-> pb.val]

\* readMessages up to the filter (resolution, own public key)
ReadPrepared(o) ==
  LET pk == resolvePrivateKey(o.key)
      pb == derivePublicKeyFromPrivate(pk.val)
  IN  IF pk.err # NoErr THEN [err |-> "invalid private key", privkey |-> "", pubkey |-> ""]
      ELSE IF pb.err # NoErr THEN [err |-> "invalid key", privkey |-> "", pubkey |-> ""]
      ELSE [err |-> NoErr, privkey |-> pk.val, pubkey |-> pb.val]

ReadPrepare ==
  /\ pc = "start"
  /\ opts.read
  /\ LET p == ReadPrepared(opts)
     IN  IF p.err # NoErr
           THEN /\ ret' = p.err
                /\ pc' = "done"
                /\ UNCHANGED <<privkey, recipientPubkey, idx>>
           ELSE /\ privkey' = p.privkey
                /\ recipientPubkey' = p.pubkey
                /\ idx' = 1
                /\ pc' = "read_loop"
                /\ ret' = ret
  /\ UNCHANGED <<connects, opts, relays, net, expired, event, open, err, published, relayState,
                 relayErr, events, pos, msgs, ri, stdout>>
  /\ UNCHANGED <<sent, argvars, dec>>

\* for _, relay := range relays: the next relay, or the end of the loop
ReadLoop ==
  /\ pc = "read_loop"
  /\ IF idx <= Len(relays)
       THEN /\ \E b \in ReadConnBehaviours : net' = [net EXCEPT ![idx] = b]
            /\ relayState' = [relayState EXCEPT ![idx] = "Connecting"]
            /\ pc' = "read_connect"
       ELSE /\ pc' = "read_collected"
            /\ UNCHANGED <<net, relayState>>
  /\ UNCHANGED <<connects, opts, relays, expired, privkey, recipientPubkey, event, idx, open,
                 err, published, relayErr, events, pos, msgs, ri, stdout, ret>>
  /\ UNCHANGED <<sent, argvars, dec>>

\* the range loop moves to the next relay after a relay that failed to
\* connect or to accept the query (continue)
\* (variant: a relay that fails ends the loop)
NextAfterReadError_Break(i) == MaxRelays + 2

NextAfterReadError(i) == i + 1

\* (variant: the query-error path forgets rc.Close())
ClosedAfterQueryError_Leak(o, i) == o

\* rc.Close() on the query-error path
ClosedAfterQueryError(o, i) == o \ {i}

\* rc, err := nostr.RelayConnect(ctx, relay); if err != nil { continue }
ReadConnect ==
  /\ pc = "read_connect"
  /\ LET e == ConnectResult(net[idx], expired)
     IN  /\ err' = e
         /\ connects' = [connects EXCEPT ![idx] = @ + 1]
         /\ expired' = (expired \/ e = "context deadline exceeded")
         /\ IF e = NoErr
              THEN /\ open' = open \cup {idx}
                   /\ relayState' = [relayState EXCEPT ![idx] = "Querying"]
                   /\ pc' = "read_query"
                   /\ UNCHANGED <<idx, relayErr>>
              ELSE /\ relayState' = [relayState EXCEPT ![idx] = "Failed"]
                   /\ relayErr' = [relayErr EXCEPT ![idx] = e]
                   /\ idx' = NextAfterReadError(idx)
                   /\ pc' = "read_loop"
                   /\ open' = open
  /\ UNCHANGED <<opts, relays, net, privkey, recipientPubkey, event, published,
                 events, pos, msgs, ri, stdout, ret>>
  /\ UNCHANGED <<sent, argvars, dec>>

\* eventsCh, err := rc.QueryEvents(ctx, filter)
ReadQuery ==
  /\ pc = "read_query"
  /\ \E b \in ReadQueryBehaviours : net' = [net EXCEPT ![idx] = b]
  /\ LET e == QueryResult(net'[idx], expired)
     IN  /\ err' = e
         /\ IF e = NoErr
              THEN /\ relayState' = [relayState EXCEPT ![idx] = "Streaming"]
                   /\ pos' = 0
                   /\ pc' = "read_recv"
                   /\ UNCHANGED relayErr
              ELSE /\ relayState' = [relayState EXCEPT ![idx] = "Failed"]
                   /\ relayErr' = [relayErr EXCEPT ![idx] = e]
                   /\ pc' = "read_query_failed"
                   /\ UNCHANGED pos
  /\ UNCHANGED <<connects, opts, relays, expired, privkey, recipientPubkey, event, idx,
                 open, published, events, msgs, ri, stdout, ret>>
  /\ UNCHANGED <<sent, argvars, dec>>

\* if err != nil { rc.Close(); continue }
ReadQueryFailed ==
  /\ pc = "read_query_failed"
  /\ open' = ClosedAfterQueryError(open, idx)
  /\ idx' = NextAfterReadError(idx)
  /\ pc' = "read_loop"
  /\ UNCHANGED <<connects, opts, relays, net, expired, privkey, recipientPubkey, event, err,
                 published, relayState, relayErr, events, pos, msgs, ri, stdout, ret>>
  /\ UNCHANGED <<sent, argvars, dec>>

\* the accumulated list after evt arrives on the channel
Accumulate(evs, evt) == Append(evs, evt)

\* (variant: the loop stops one event late)
CountReached_OneLate(evs, count) == Len(evs) > count

\* if len(events) >= opts.count { break }
CountReached(evs, count) == Len(evs) >= count

\* (variant: only the relay's end of stored events closes the channel, the
\* deadline does not)
ChannelClosed_NeedsEose(b, p) == p >= Len(b.stream) /\ b.eose

\* the channel of QueryEvents(ctx, filter) is closed once the relay has
\* delivered its stream: by its end of stored events or else by the deadline
\* of ctx
ChannelClosed(b, p) == p >= Len(b.stream)

\* for evt := range eventsCh: one event arrives
ReadRecv ==
  /\ pc = "read_recv"
  /\ pos < Len(net[idx].stream)
  /\ events' = Accumulate(events, net[idx].stream[pos + 1])
  /\ pos' = pos + 1
  /\ pc' = IF CountReached(events', opts.count) THEN "read_close" ELSE "read_recv"
  /\ UNCHANGED <<connects, opts, relays, net, expired, privkey, recipientPubkey, event, idx,
                 open, err, published, relayState, relayErr, msgs, ri, stdout, ret>>
  /\ UNCHANGED <<sent, argvars, dec>>

\* for evt := range eventsCh: the channel is closed, by the relay's end of
\* stored events or else by the deadline
ReadStreamEnd ==
  /\ pc = "read_recv"
  /\ ChannelClosed(net[idx], pos)
  /\ expired' = (expired \/ ~net[idx].eose)
  /\ pc' = "read_close"
  /\ UNCHANGED <<connects, opts, relays, net, privkey, recipientPubkey, event, idx, open, err,
                 published, relayState, relayErr, events, pos, msgs, ri, stdout, ret>>
  /\ UNCHANGED <<sent, argvars, dec>>

\* rc.Close(); if len(events) >= opts.count { break }
ReadClose ==
  /\ pc = "read_close"
  /\ open' = open \ {idx}
  /\ relayState' = [relayState EXCEPT ![idx] = "Closed"]
  /\ IF CountReached(events, opts.count)
       THEN pc' = "read_collected" /\ idx' = idx
       ELSE pc' = "read_loop" /\ idx' = idx + 1
  /\ UNCHANGED <<connects, opts, relays, net, expired, privkey, recipientPubkey, event, err,
                 published, relayErr, events, pos, msgs, ri, stdout, ret>>
  /\ UNCHANGED <<sent, argvars, dec>>

\* what a read that accumulated no event prints and returns, rs being the
\* states the relays ended in (which the code does not look at)
EmptyReadResult(rs) ==
  [ret |-> NoErr, stdout |-> << Line("no_messages", <<>>, "", "", 0) >>]

\* if len(events) == 0 { "No messages found"; return nil }; else the header
\* of the text output
ReadCollected ==
  /\ pc = "read_collected"
  /\ IF Len(events) = 0
       THEN /\ stdout' = EmptyReadResult(relayState).stdout
            /\ ret' = EmptyReadResult(relayState).ret
            /\ pc' = "done"
            /\ UNCHANGED ri
       ELSE /\ stdout' = IF opts.jsonOutput THEN stdout
                         ELSE << Line("found", <<>>, "", "", Len(events)) >>
            /\ ri' = 1
            /\ pc' = "read_render"
            /\ UNCHANGED ret
  /\ UNCHANGED <<connects, opts, relays, net, expired, privkey, recipientPubkey, event, idx,
                 open, err, published, relayState, relayErr, events, pos, msgs>>
  /\ UNCHANGED <<sent, argvars, dec>>

min(a, b) == IF a < b THEN a ELSE b

\* x[:n] + "...": the first n characters of x
Prefix(x, n) == [of |-> x, shown |-> n]

\* e.Content[:min(50, len(e.Content))] + "..."
Preview(content) == Prefix(content, min(PreviewLen, content.len))

\* the entry of event e at position i, in JSON mode
JsonEntry(pk, e) ==
  Line("json", e.ID, e.PubKey, decryptMessage(pk, e.PubKey, e.Content).val, 0)

\* the entry of event e at position i, in text mode
TextEntry(pk, e, i) ==
  LET d == decryptMessage(pk, e.PubKey, e.Content)
  IN  IF d.err # NoErr
        THEN [Line("decrypt_failed", Prefix(e.ID, 16), Prefix(e.PubKey, 16), d.err, i)
                EXCEPT !.raw = Preview(e.Content)]
        ELSE Line("message", Prefix(e.ID, 16), Prefix(EncodePublicKey(e.PubKey), 20),
                  d.val, i)

\* (variant: an event that fails to decrypt is skipped)
PrintedText_SkipFailed(out, pk, e, i) ==
  IF decryptMessage(pk, e.PubKey, e.Content).err # NoErr
    THEN out
    ELSE Append(out, TextEntry(pk, e, i))

\* the text output after the entry of event e is printed
PrintedText(out, pk, e, i) == Append(out, TextEntry(pk, e, i))

\* the JSON entries after the entry of event e is appended
AppendedJson(ms, pk, e) == Append(ms, JsonEntry(pk, e))

\* one iteration of the rendering loop (for _, e := range events)
ReadRender ==
  /\ pc = "read_render"
  /\ ri <= Len(events)
  /\ IF opts.jsonOutput
       THEN /\ msgs' = AppendedJson(msgs, privkey, events[ri])
            /\ UNCHANGED stdout
       ELSE /\ stdout' = PrintedText(stdout, privkey, events[ri], ri)
            /\ UNCHANGED msgs
  /\ ri' = ri + 1
  /\ UNCHANGED <<connects, opts, relays, net, expired, pc, privkey, recipientPubkey, event,
                 idx, open, err, published, relayState, relayErr, events, pos, ret>>
  /\ UNCHANGED <<sent, argvars, dec>>

\* after the loop: JSON mode prints the array; return nil
ReadReturn ==
  /\ pc = "read_render"
  /\ ri > Len(events)
  /\ stdout' = IF opts.jsonOutput THEN stdout \o msgs ELSE stdout
  /\ ret' = NoErr
  /\ pc' = "done"
  /\ UNCHANGED <<connects, opts, relays, net, expired, privkey, recipientPubkey, event, idx,
                 open, err, published, relayState, relayErr, events, pos, msgs, ri>>
  /\ UNCHANGED <<sent, argvars, dec>>

\* ----------------------------------------------------------- specification
\* ------------------------------------------------------ argument parsing
\* the flags of parseArgs that take a value and matter to a command's
\* required options
ValueFlags == {"-k", "-r", "-m", "-n"}

\* the words an argument list is made of: the flags, a word that reads as an
\* integer and the empty word
ArgTokens == ValueFlags \cup {"7", ""}

\* the command word in front of the flags, if any
Commands == {<<>>, <<"read">>, <<"inbox">>}

BoundedSeq(S, n) == UNION { [1..k -> S] : k \in 0..n }

\* strings.HasPrefix(word, "-")
HasDashPrefix(word) == word \in ValueFlags

\* fmt.Sscanf(word, "%d", &n)
Sscanf(word) ==
  IF word = "7" THEN [ok |-> TRUE, n |-> 7] ELSE [ok |-> FALSE, n |-> 0]

MissingValue(flag) ==
  CASE flag = "-k" -> "missing value for -k"
    [] flag = "-r" -> "missing value for -r"
    [] flag = "-m" -> "missing value for -m"
    [] flag = "-n" -> "missing value for -n"

InvalidCount == "invalid count"

MissingKey == "missing required flag: -k/--key (your private key)"

MissingRecipient == "missing required flag: -r/--recipient (recipient's public key)"

MissingMessage == "missing required flag: -m/--message (the message to send)"

\* no command is running
RunIdle ==
  /\ opts = [read |-> TRUE, key |-> NoKey, recipient |-> NoKey, message |-> "",
             count |-> DefaultCount, jsonOutput |-> FALSE]
  /\ relays = <<1>>
  /\ net = <<Unknown>>
  /\ expired = FALSE
  /\ pc = "start"
  /\ privkey = ""
  /\ recipientPubkey = ""
  /\ event = NoEvent
  /\ idx = 0
  /\ open = {}
  /\ connects = <<0>>
  /\ err = NoErr
  /\ published = 0
  /\ relayState = <<"Idle">>
  /\ relayErr = <<NoErr>>
  /\ events = <<>>
  /\ pos = 0
  /\ msgs = <<>>
  /\ ri = 0
  /\ stdout = <<>>
  /\ ret = "running"
  /\ sent = <<NoEvent>>

InitArgs ==
  /\ \E c \in Commands : \E f \in BoundedSeq(ArgTokens, MaxArgs) : argv = c \o f
  /\ args = argv
  /\ argi = 0
  /\ ppc = "command"
  /\ popts = InitialOptions
  /\ parsed = [opts |-> <<>>, err |-> "none"]
  /\ RunIdle
  /\ dec = DecIdle

\* command := "send"; a first word without a leading "-" is the command and
\* is sliced off; read and inbox set opts.read
ParseCommand ==
  /\ ppc = "command"
  /\ LET isCommand == Len(args) > 0 /\ ~HasDashPrefix(args[1])
         command == IF isCommand THEN args[1] ELSE "send"
     IN  /\ args' = IF isCommand THEN Tail(args) ELSE args
         /\ popts' = [popts EXCEPT !.read = (command = "read" \/ command = "inbox")]
  /\ argi' = 1
  /\ ppc' = "flags"
  /\ UNCHANGED <<argv, parsed>>
  /\ UNCHANGED <<runvars, dec>>

\* what one case of the switch does with the value of the flag at i
WithValue(o, flag, value) ==
  CASE flag = "-k" -> [opts |-> [o EXCEPT !.key = value], err |-> NoErr]
    [] flag = "-r" -> [opts |-> [o EXCEPT !.recipient = value], err |-> NoErr]
    [] flag = "-m" -> [opts |-> [o EXCEPT !.message = value], err |-> NoErr]
    [] flag = "-n" -> IF Sscanf(value).ok
                        THEN [opts |-> [o EXCEPT !.count = Sscanf(value).n], err |-> NoErr]
                        ELSE [opts |-> o, err |-> InvalidCount]

\* one iteration of the loop over args: a flag takes the next word as its
\* value (an error if there is none), any other word is passed over
ParseFlag ==
  /\ ppc = "flags"
  /\ argi <= Len(args)
  /\ LET arg == args[argi]
     IN  IF arg \notin ValueFlags
           THEN /\ argi' = argi + 1
                /\ UNCHANGED <<ppc, popts, parsed>>
         ELSE IF argi + 1 > Len(args)
           THEN /\ parsed' = [opts |-> <<>>, err |-> MissingValue(arg)]
                /\ ppc' = "returned"
                /\ UNCHANGED <<argi, popts>>
         ELSE LET r == WithValue(popts, arg, args[argi + 1])
              IN  IF r.err # NoErr
                    THEN /\ parsed' = [opts |-> <<>>, err |-> r.err]
                         /\ ppc' = "returned"
                         /\ UNCHANGED <<argi, popts>>
                    ELSE /\ popts' = r.opts
                         /\ argi' = argi + 2
                         /\ UNCHANGED <<ppc, parsed>>
  /\ UNCHANGED <<argv, args>>
  /\ UNCHANGED <<runvars, dec>>

\* (variant: read asks for a recipient as send does)
RequiredError_ReadNeedsRecipient(o) ==
  IF o.key = "" THEN MissingKey
  ELSE IF o.recipient = "" THEN MissingRecipient
  ELSE IF ~o.read /\ o.message = "" THEN MissingMessage
  ELSE NoErr

\* the checks after the loop: read needs the key; send needs the key, the
\* recipient and the message, tested in this order
RequiredError(o) ==
  IF o.read
    THEN (IF o.key = "" THEN MissingKey ELSE NoErr)
    ELSE IF o.key = "" THEN MissingKey
    ELSE IF o.recipient = "" THEN MissingRecipient
    ELSE IF o.message = "" THEN MissingMessage
    ELSE NoErr

\* the loop is over: return nil and the first failed check, or opts and nil
ParseCheck ==
  /\ ppc = "flags"
  /\ argi > Len(args)
  /\ parsed' = IF RequiredError(popts) # NoErr
                 THEN [opts |-> <<>>, err |-> RequiredError(popts)]
                 ELSE [opts |-> <<popts>>, err |-> NoErr]
  /\ ppc' = "returned"
  /\ UNCHANGED <<argv, args, argi, popts>>
  /\ UNCHANGED <<runvars, dec>>

NextArgs ==
  \/ ParseCommand
  \/ ParseFlag
  \/ ParseCheck

SpecArgs == InitArgs /\ [][NextArgs]_vars

\* --------------------------------------------------------- decryptMessage
\* the private keys, public keys and contents decryptMessage is called with:
\* usable and unusable keys, the empty key, payloads under several
\* conversation keys, a content that is no payload and the empty content
DecryptKeys == Values \cup {""}

DecryptContents ==
  {EmptyContent, ShortGarbage}
    \cup { Encrypt("hello", ck) : ck \in {{"pkA", "pkB"}, {"pkA", "pkX"}, {"pkB"}} }

InitDecrypt ==
  /\ \E k \in DecryptKeys, p \in DecryptKeys, c \in DecryptContents :
       dec = [privkey |-> k, pubkey |-> p, content |-> c, pc |-> "check_content",
              key |-> {}, calls |-> <<>>, ret |-> [err |-> "running", val |-> ""]]
  /\ RunIdle
  /\ ArgsIdle

\* if content == "" { return "", "empty content" }
DecryptCheckContent ==
  /\ dec.pc = "check_content"
  /\ dec' = IF ContentRejected(dec.content)
              THEN [dec EXCEPT !.ret = [err |-> "empty content", val |-> ""],
                               !.pc = "returned"]
              ELSE [dec EXCEPT !.pc = "generate_key"]
  /\ UNCHANGED <<runvars, argvars>>

\* key, err := nip44.GenerateConversationKey(pubkey, privkey);
\* if err != nil { return "", "generate key: ..." }
DecryptGenerateKey ==
  /\ dec.pc = "generate_key"
  /\ LET r == GenerateConversationKey(dec.pubkey, dec.privkey)
         called == Append(dec.calls, "GenerateConversationKey")
     IN  dec' = IF r.err # NoErr
                  THEN [dec EXCEPT !.calls = called,
                                   !.ret = [err |-> "generate key", val |-> ""],
                                   !.pc = "returned"]
                  ELSE [dec EXCEPT !.calls = called, !.key = r.key, !.pc = "cipher"]
  /\ UNCHANGED <<runvars, argvars>>

\* return nip44.Decrypt(content, key)
DecryptCipher ==
  /\ dec.pc = "cipher"
  /\ dec' = [dec EXCEPT !.calls = Append(dec.calls, "Decrypt"),
                        !.ret = Decrypt(dec.content, dec.key),
                        !.pc = "returned"]
  /\ UNCHANGED <<runvars, argvars>>

NextDecrypt ==
  \/ DecryptCheckContent
  \/ DecryptGenerateKey
  \/ DecryptCipher

SpecDecrypt == InitDecrypt /\ [][NextDecrypt]_vars

Next ==
  \/ SendPrepare
  \/ SendLoop
  \/ SendConnect
  \/ SendPublish
  \/ SendClose
  \/ SendFinish
  \/ ReadPrepare
  \/ ReadLoop
  \/ ReadConnect
  \/ ReadQuery
  \/ ReadQueryFailed
  \/ ReadRecv
  \/ ReadStreamEnd
  \/ ReadClose
  \/ ReadCollected
  \/ ReadRender
  \/ ReadReturn

Spec == Init /\ [][Next]_vars

\* a run is one goroutine that takes its next step whenever it has one
SpecLive == Init /\ [][Next]_vars /\ WF_vars(Next)

TypeOK ==
  /\ pc \in {"start", "send_loop", "send_connect", "send_publish", "send_close",
             "send_finish", "read_loop", "read_connect", "read_query",
             "read_query_failed", "read_recv", "read_close", "read_collected",
             "read_render", "done"}
  /\ published \in 0..Len(relays)
  /\ idx \in 0..(Len(relays) + 1)
  /\ open \subseteq DOMAIN relays
  /\ expired \in BOOLEAN

\* ================================================================== claims
\* a send that got past resolution, encryption and signing and has returned
SendReturned == pc = "done" /\ ~opts.read /\ event # NoEvent

\* a read that got past key resolution and has finished collecting
ReadCollectedOrLater ==
  opts.read /\ privkey # "" /\ pc \in {"read_collected", "read_render", "done"}

ReadReturned == pc = "done" /\ opts.read /\ privkey # ""

Succeeded(i) == relayState[i] = "Succeeded"

\* C1: a send that reaches the publish phase returns success if and only if
\* at least one relay both connected and accepted the publish; when none
\* did, it returns the publish-failure error and prints no success output.
C1_SuccessIffSomeRelayAccepted ==
  SendReturned =>
    /\ (ret = NoErr) <=> (\E i \in DOMAIN relays : Succeeded(i))
    /\ (\A i \in DOMAIN relays : ~Succeeded(i)) => (ret = PublishFailed /\ stdout = <<>>)
    /\ (ret = NoErr) => stdout # <<>>

\* three relays, one failing to connect, one hanging, all failed
C1_Witness ==
  /\ SendReturned
  /\ Len(relays) = 3
  /\ relayErr[1] = "publish error"
  /\ relayErr[2] = "connect error"
  /\ \A i \in DOMAIN relays : relayState[i] = "Failed"
  /\ ret = PublishFailed

\* C2: in a send that reaches the publish phase every configured relay gets
\* a connect attempt, whatever happened on the relays before it.
C2_EveryRelayAttempted ==
  /\ SendReturned => \A i \in DOMAIN relays : connects[i] >= 1
  /\ (~opts.read /\ pc = "send_finish") => \A i \in DOMAIN relays : connects[i] >= 1

\* a success on the first relay, a publish failure on the second, a connect
\* failure on the third: the third was still attempted
C2_Witness ==
  /\ SendReturned
  /\ Len(relays) = 3
  /\ relayState[1] = "Succeeded"
  /\ relayErr[2] = "publish error"
  /\ relayErr[3] = "connect error"
  /\ connects[3] = 1

\* the per-relay outcomes of a send: Succeeded, or the reason of the failure
Outcomes == {"Succeeded", "connect error", "publish error", "context deadline exceeded"}

Outcome(i) == IF Succeeded(i) THEN "Succeeded" ELSE relayErr[i]

NumSucceeded(o) == Cardinality({i \in DOMAIN o : o[i] = "Succeeded"})

\* C3: the caller-visible result of a send reports, for each configured
\* relay, whether it succeeded or failed and why: what the run returned and
\* printed is compatible with one vector of per-relay outcomes only.
C3_ResultReportsEachRelay ==
  SendReturned =>
    \A o \in [DOMAIN relays -> Outcomes] :
      (SendResult(opts, event, recipientPubkey, NumSucceeded(o))
         = [ret |-> ret, stdout |-> stdout])
        => o = [i \in DOMAIN relays |-> Outcome(i)]

\* C4: no event identifier occurs more than once in the list read
\* accumulates.
C4_NoDuplicateIds ==
  opts.read =>
    \A i, j \in 1..Len(events) : i < j => events[i].ID # events[j].ID

\* the output entries of a read, one per event (text mode prints a header
\* line first)
Entries == IF opts.jsonOutput \/ stdout = <<>> THEN stdout ELSE Tail(stdout)

\* C5: for every requested count K >= 0, 0 included, read never accumulates
\* or renders more than K events.
C5_AtMostCount ==
  (opts.read /\ opts.count >= 0) =>
    /\ Len(events) <= opts.count
    /\ ReadReturned /\ events # <<>> => Len(Entries) <= opts.count

RECURSIVE ConcatStreams(_, _)
ConcatStreams(f, n) == IF n = 0 THEN <<>> ELSE ConcatStreams(f, n - 1) \o f[n].stream

\* what the relays that accepted the query delivered, in configured order
Offered == ConcatStreams(net, Len(relays))

Take(sq, n) == SubSeq(sq, 1, n)

PairwiseDistinct(sq) == \A i, j \in 1..Len(sq) : i < j => sq[i].ID # sq[j].ID

\* C6: for K >= 1 and pairwise distinct events, the result of read is the
\* first min(K, total offered) events of the concatenation of the reachable
\* relays' streams, in configured relay order and each relay's own order.
C6_FirstKInOrder ==
  (ReadCollectedOrLater /\ opts.count >= 1 /\ PairwiseDistinct(Offered)) =>
    events = Take(Offered, min(opts.count, Len(Offered)))

\* two relays offering three distinct events, two requested
C6_Witness ==
  /\ ReadReturned
  /\ opts.count = 2
  /\ Len(Offered) = 3
  /\ PairwiseDistinct(Offered)
  /\ Len(net[1].stream) = 1
  /\ Len(net[2].stream) = 2
  /\ Len(events) = 2

NoMessages == << Line("no_messages", <<>>, "", "", 0) >>

C7_Step ==
  /\ (pc \in {"read_connect", "read_query"} /\ relayState'[idx] = "Failed")
       => /\ events' = events
          /\ ret' = "running"
          /\ pc' \in {"read_loop", "read_query_failed"}
  /\ pc = "read_query_failed" => (events' = events /\ pc' = "read_loop")
  /\ (pc' = "done" /\ opts'.read /\ privkey' # "")
       => /\ (\A i \in DOMAIN relays : relayState'[i] = "Failed")
               => (ret' = NoErr /\ events' = <<>> /\ stdout' = NoMessages)
          /\ \A i \in DOMAIN relays :
               (relayState'[i] = "Failed" /\ i < Len(relays)) => connects'[i + 1] >= 1
          /\ ret' = NoErr

\* C7: in read a relay that fails to connect or whose query fails is
\* skipped: the events accumulated so far are kept, the run goes on to the
\* next relay, and when every relay fails read returns no error and no
\* messages.
C7_FailedRelaySkipped == [][C7_Step]_vars

\* events from the first relay, a failure on the second, more events from
\* the third
C7_Witness ==
  /\ ReadReturned
  /\ Len(relays) = 3
  /\ relayState = <<"Closed", "Failed", "Closed">>
  /\ Len(net[1].stream) = 1
  /\ Len(events) = 2
  /\ ret = NoErr

\* C8: an operation still pending at the deadline fails that relay only: a
\* relay whose connect and publish would have answered succeeds, wherever a
\* hung relay stands in the list.
C8_HungRelayFailsAlone ==
  SendReturned =>
    \A i \in DOMAIN relays :
      (net[i].conn = "ok" /\ net[i].pub = "ok") => Succeeded(i)

\* C9: every connection send or read opens is closed before the operation
\* returns, on every path, and none is open when the next relay's connect
\* is attempted.
C9_ConnectionsClosed ==
  /\ Cardinality(open) <= 1
  /\ pc \in {"send_finish", "read_collected", "read_render", "done"} => open = {}
  /\ pc \in {"send_loop", "send_connect", "read_loop", "read_connect"} => open = {}

\* a read with a query failure on the first relay and an early stop at the
\* requested count on the second
C9_Witness ==
  /\ ReadReturned
  /\ relayErr[1] = "query error"
  /\ connects[1] = 1
  /\ Len(relays) >= 3
  /\ relayState[2] = "Closed"
  /\ Len(net[2].stream) > Len(events)
  /\ connects[3] = 0
  /\ open = {}

\* the identifier an output entry shows
EntryId(l) == IF l.kind = "json" THEN l.id ELSE l.id.of

\* event e is a payload under the conversation key of the reader and e's author
Decryptable(e) ==
  /\ e.Content.form = "nip44"
  /\ ValidPub(e.PubKey)
  /\ e.Content.ck = {PubOf(privkey), e.PubKey}

\* C10: for N collected events read outputs N entries in collected order, in
\* text and in JSON mode; events that fail to decrypt are not dropped and the
\* others are output with their plaintext.
C10_EveryEventRendered ==
  (ReadReturned /\ events # <<>>) =>
    /\ Len(Entries) = Len(events)
    /\ \A i \in 1..Len(events) :
         i <= Len(Entries) =>
           /\ EntryId(Entries[i]) = events[i].ID
           /\ Decryptable(events[i]) => Entries[i].content = events[i].Content.pt

\* a failed decryption followed by a successful one
C10_Witness ==
  /\ ReadReturned
  /\ Len(events) = 2
  /\ ~Decryptable(events[1])
  /\ Decryptable(events[2])
  /\ Len(Entries) = 2
  /\ Entries[2].content = "hello"

\* C11: in text and in JSON mode an event whose decryption failed is output
\* with a failure marker and a preview of the raw ciphertext that is bounded
\* and never the whole ciphertext, whatever the ciphertext's length.
C11_FailureMarkedAndPreviewed ==
  (ReadReturned /\ events # <<>>) =>
    \A i \in 1..Len(events) :
      (i <= Len(Entries) /\ ~Decryptable(events[i])) =>
        /\ Entries[i].kind = "decrypt_failed"
        /\ Entries[i].raw.of = events[i].Content
        /\ Entries[i].raw.shown <= PreviewLen
        /\ events[i].Content.len > 0 => Entries[i].raw.shown < events[i].Content.len

\* a stage before the first connect fails on the options of this run
PreNetworkFault ==
  LET pk == resolvePrivateKey(opts.key)
      rp == resolveKey(opts.recipient)
  IN  IF opts.read
        THEN pk.err # NoErr \/ ~ValidSecret(pk.val)
        ELSE \/ pk.err # NoErr
             \/ rp.err # NoErr
             \/ ~ValidPub(rp.val)
             \/ ~ValidSecret(pk.val)
             \/ EncryptErr(opts.message) # NoErr

\* C12: no relay connection is attempted in a run whose pre-network stage
\* (key or recipient resolution, conversation key, encryption, signing; for
\* read: key resolution, public-key derivation) fails: the error is returned
\* before the first connect.
C12_NoConnectAfterPreNetworkFailure ==
  PreNetworkFault =>
    /\ \A i \in DOMAIN relays : connects[i] = 0 /\ relayState[i] = "Idle"
    /\ open = {}
    /\ pc \in {"start", "done"}
    /\ pc = "done" => ret \notin {"running", NoErr, PublishFailed}

\* a read whose key is 64 hex characters that are no valid secret
C12_Witness ==
  /\ pc = "done"
  /\ opts.read
  /\ opts.key = Hex("ffff")
  /\ ret = "invalid key"
  /\ \A i \in DOMAIN relays : connects[i] = 0

\* the stage an error of send names
StageOf(e) ==
  CASE e \in {"invalid private key", "invalid recipient"} -> "resolution"
    [] e \in {"failed to generate conversation key", "failed to encrypt"} -> "crypto"
    [] e = "failed to sign event" -> "signing"
    [] e = PublishFailed -> "publish"
    [] OTHER -> "none"

\* the stage the fault of this run lies in: a key that is no private key or
\* a recipient that does not resolve is a resolution fault, a recipient
\* value that is no public key or a message that does not encrypt a crypto
\* fault, and a send with sound inputs can fail in the publish stage only
FaultStage ==
  LET pk == resolvePrivateKey(opts.key)
      rp == resolveKey(opts.recipient)
  IN  IF pk.err # NoErr \/ ~ValidSecret(pk.val) \/ rp.err # NoErr THEN "resolution"
      ELSE IF ~ValidPub(rp.val) \/ EncryptErr(opts.message) # NoErr THEN "crypto"
      ELSE "publish"

\* C13: every fatal error of send names the stage where the fault lies: a
\* malformed private key is reported by the resolution stage, the error of
\* zero relays succeeding by the publish stage.
C13_ErrorNamesFaultStage ==
  (pc = "done" /\ ~opts.read /\ ret # NoErr) => StageOf(ret) = FaultStage

\* main: os.Exit(1) on any error
ExitCode(r) == IF r = NoErr THEN 0 ELSE 1

\* the exit codes the README documents
DocumentedExit(r) ==
  CASE r = NoErr -> 0
    [] r \in {"failed to generate conversation key", "failed to encrypt"} -> 2
    [] r = "failed to sign event" -> 3
    [] r = PublishFailed -> 4
    [] OTHER -> 1

\* C14: the exit code tells the failure stage apart: 0 success, 1 invalid
\* arguments or other errors, 2 encryption, 3 signing, 4 publishing failed
\* on all relays.
C14_ExitCodeTellsStage ==
  pc = "done" => ExitCode(ret) = DocumentedExit(ret)

\* what resolveKey is to return for 64 hex characters denoting v
HexResolution(v) == IF ValidSecret(v) THEN PubOf(v) ELSE v

FitsPrivate(k) == k.form = "hex" \/ (k.form = "nsec" /\ k.tag = "nsec" /\ k.ok)

FitsPublic(k) == FitsPrivate(k) \/ (k.form = "npub" /\ k.tag = "npub" /\ k.ok)

AllFailed(rs) == \A i \in DOMAIN rs : rs[i] = "Failed"

\* C18: the caller of read can tell "found nothing" from "could not reach
\* any relay": what a read without events returns and prints is compatible
\* only with relay states that agree with the actual ones on whether every
\* relay failed.
C18_UnreachableToldFromEmpty ==
  (ReadReturned /\ events = <<>>) =>
    \A rs \in [DOMAIN relays -> {"Failed", "Closed"}] :
      (EmptyReadResult(rs) = [ret |-> ret, stdout |-> stdout])
        => (AllFailed(rs) <=> AllFailed(relayState))

C19_Step ==
  /\ (opts.read /\ opts.count >= 0 /\ Len(events) >= opts.count)
       => (events' = events /\ connects' = connects)
  /\ (opts.read /\ privkey' # "" /\ pc' \in {"read_collected", "read_render", "done"}
        /\ Len(events') < opts.count)
       => \A i \in DOMAIN relays : connects'[i] >= 1

\* C19: in read, once the accumulated events have reached the requested
\* count K no further event is taken and no later relay is connected to;
\* while fewer than K are accumulated every remaining relay is tried.
C19_StopsAtCount == [][C19_Step]_vars

SendTransitions ==
  { <<"Idle", "Connecting">>, <<"Connecting", "Publishing">>, <<"Connecting", "Failed">>,
    <<"Publishing", "Succeeded">>, <<"Publishing", "Failed">> }

C20_Step ==
  ~opts.read =>
    \A i \in DOMAIN relays :
      /\ relayState'[i] = relayState[i] \/ <<relayState[i], relayState'[i]>> \in SendTransitions
      /\ connects'[i] <= 1
      /\ connects'[i] # connects[i] => relayState[i] = "Connecting"
      /\ (pc = "send_connect" /\ i = idx /\ err' # NoErr) => relayState'[i] = "Failed"
      /\ (pc = "send_publish" /\ i = idx)
           => /\ relayState[i] = "Publishing"
              /\ err = NoErr
              /\ i \in open
              /\ connects[i] = 1
              /\ relayState'[i] \in {"Succeeded", "Failed"}
      /\ relayState'[i] # relayState[i]
           => i = idx /\ pc \in {"send_loop", "send_connect", "send_publish"}

\* C20: in one send each relay's attempt only moves forward through
\* Connecting -> Publishing -> {Succeeded, Failed}: publish is issued only
\* after the relay's connect succeeded, a failed connect goes straight to
\* Failed, a relay gets at most one connect and one publish, and a relay
\* that Succeeded or Failed never changes state again.
C20_SingleShotForward == [][C20_Step]_vars

\* a failed connect, a success and a relay cut off by the deadline
C20_Witness ==
  /\ SendReturned
  /\ Len(relays) = 3
  /\ relayErr[1] = "connect error"
  /\ relayState[2] = "Succeeded"
  /\ net[3].conn = "ok"
  /\ net[3].pub = "hang"
  /\ relayErr[3] = "context deadline exceeded"
  /\ \A i \in DOMAIN relays : connects[i] = 1

\* parseArgs has returned
ParseReturned == ppc = "returned"

\* the command an argument list names: its first word unless that is a flag
CommandOf(a) == IF Len(a) > 0 /\ a[1] \notin ValueFlags THEN a[1] ELSE "send"

IsRead(a) == CommandOf(a) \in {"read", "inbox"}

\* the flag occurs somewhere in the argument list
Occurs(a, flag) == \E i \in 1..Len(a) : a[i] = flag

\* the error the required-flag rules ask for, k, r and m telling whether
\* the key, the recipient and the message are there
RequiredOutcome(read, k, r, m) ==
  IF ~k THEN MissingKey
  ELSE IF read THEN NoErr
  ELSE IF ~r THEN MissingRecipient
  ELSE IF ~m THEN MissingMessage
  ELSE NoErr

FlagWords(a) == IF Len(a) > 0 /\ a[1] \notin ValueFlags THEN Tail(a) ELSE a

RECURSIVE FlagPositions(_, _)
\* the positions from i on where a word stands as a flag rather than as the
\* value of the flag before it
FlagPositions(w, i) ==
  IF i > Len(w) THEN {}
  ELSE IF w[i] \in ValueFlags THEN {i} \cup FlagPositions(w, i + 2)
  ELSE FlagPositions(w, i + 1)

\* every flag has a value after it and every -n value is an integer
WellFormed(w) ==
  \A i \in FlagPositions(w, 1) :
    /\ i < Len(w)
    /\ w[i] = "-n" => Sscanf(w[i + 1]).ok

Last(P) == CHOOSE i \in P : \A j \in P : j <= i

\* the value the last occurrence of the flag gives it, "" without one
ValueOf(w, flag) ==
  LET P == { i \in FlagPositions(w, 1) : w[i] = flag }
  IN  IF P = {} THEN "" ELSE w[Last(P) + 1]

IdOf(ev) == <<"id", ev.PubKey, ev.CreatedAt, ev.Kind, ev.Tags, ev.Content>>

C21_Step ==
  ~opts.read =>
    /\ event # NoEvent => event' = event
    /\ event' # NoEvent =>
         /\ event'.ID = IdOf(event')
         /\ event'.CreatedAt \in Times
         /\ event'.Kind = KindEncryptedDirectMessage
         /\ event'.Tags = <<"p", recipientPubkey'>>
    /\ \A i \in DOMAIN relays :
         /\ sent'[i] # sent[i] =>
              /\ pc = "send_publish" /\ i = idx
              /\ sent[i] = NoEvent
              /\ event # NoEvent
              /\ sent'[i] = event
         /\ relayState'[i] = "Succeeded" => sent'[i] = event'
    /\ stdout' # stdout => stdout'[1].id = event.ID

\* C21: the signed event is built once and never changes afterwards: its
\* identifier is the hash of the fields it carries (the one creation time
\* included), every relay's publish is handed exactly this event, and its
\* identifier is the one printed as the message id.
C21_EventBuiltOnce == [][C21_Step]_vars

\* a send at the later clock reading whose event went to three relays, two
\* of which accepted it
C21_Witness ==
  /\ SendReturned
  /\ ret = NoErr
  /\ Len(relays) = 3
  /\ event.CreatedAt = MaxTime
  /\ \A i \in DOMAIN relays : sent[i] = event
  /\ relayState = <<"Succeeded", "Failed", "Succeeded">>
  /\ stdout[1].id = event.ID

\* C22: send and read always terminate: with every connect, publish and
\* query returning and every channel closed at the latest when the shared
\* deadline elapses, the run eventually returns, whatever the relays do.
C22_AlwaysReturns == <>(pc = "done" /\ ret # "running")

\* a read that returned although the first relay's stream never ended on its
\* own and the relays after it were cut off by the deadline
C22_Witness ==
  /\ ReadReturned
  /\ Len(relays) = 3
  /\ net[1].qry = "ok"
  /\ ~net[1].eose
  /\ relayState[1] = "Closed"
  /\ relayErr[2] = "context deadline exceeded"
  /\ relayErr[3] = "context deadline exceeded"
  /\ ret = NoErr

DecryptReturned == dec.pc = "returned"

\* C23: decryptMessage checks its three failure causes in order and reports
\* each by its own error: the empty content before any library call; a
\* conversation key that cannot be derived (unusable private or public key)
\* as a key-generation error after the derivation alone; in every other
\* case it returns what the cipher returns.
C23_DecryptFailuresInOrder ==
  DecryptReturned =>
    LET derivable == ValidPub(dec.pubkey) /\ ValidSecret(dec.privkey)
    IN  /\ dec.content = EmptyContent =>
             dec.ret.err = "empty content" /\ dec.calls = <<>>
        /\ (dec.content # EmptyContent /\ ~derivable) =>
             dec.ret.err = "generate key" /\ dec.calls = <<"GenerateConversationKey">>
        /\ (dec.content # EmptyContent /\ derivable) =>
             /\ dec.calls = <<"GenerateConversationKey", "Decrypt">>
             /\ dec.ret = Decrypt(dec.content, {dec.pubkey, PubOf(dec.privkey)})
             /\ dec.ret.err \notin {"empty content", "generate key"}
        /\ dec.ret = decryptMessage(dec.privkey, dec.pubkey, dec.content)

\* a payload met with the empty private key: the key-generation error, the
\* cipher not called
C23_Witness ==
  /\ DecryptReturned
  /\ dec.privkey = ""
  /\ dec.pubkey = "pkB"
  /\ dec.content = Encrypt("hello", {"pkA", "pkB"})
  /\ dec.ret.err = "generate key"
  /\ dec.calls = <<"GenerateConversationKey">>

====
